---- MODULE Spec2Model ----
(***************************************************************************)
(* Multi-process metric reconciliation of prometheus_client/multiprocess.py *)
(* : MultiProcessCollector.collect, mark_process_dead, compact and the      *)
(* flocking lock scope, over one directory of keyed float stores.           *)
(*                                                                          *)
(* A file name is the sequence of the '_'-separated segments of its base    *)
(* name without the ".db" extension; Parts puts the extension back on the   *)
(* last segment, as str.split('_') leaves it there.  A store is a function  *)
(* from keys to values; a key is the decoded 4-tuple                        *)
(* <<metric_name, name, labelnames, labelvalues>>.  Values are integers     *)
(* (exact arithmetic stands for the 64-bit floats).                         *)
(***************************************************************************)
EXTENDS Integers, Sequences, FiniteSets, TLC

VARIABLES
    dir,      \* the directory: file name -> store, for the files that exist
    flk,      \* advisory locks on store files: set of <<holder, file name>>
    lockSH,   \* processes holding the coordination file in LOCK_SH
    lockEX,   \* processes holding the coordination file in LOCK_EX
    pc,       \* position of every process
    opk,      \* the call a process runs: "collect", "dead", "compact" or "none"
    arg,      \* the pid given to mark_process_dead ("" otherwise)
    todo,     \* files of the running glob loop not yet visited
    cur,      \* current file: f of mark_process_dead, srcf of compact
    kq,       \* keys of src not yet merged by compact
    metrics,  \* the metrics dict of a collect
    result,   \* what collect returned
    snap,     \* the directory as collect found it when it took the lock, as
              \* compact found it when it opened src
    probed,   \* history: files whose probe succeeded, per process
    acted     \* history: <<file, "remove" | "compact">> decided, per process

vars == <<dir, flk, lockSH, lockEX, pc, opk, arg, todo, cur, kq, metrics,
          result, snap, probed, acted>>

-----------------------------------------------------------------------------
(* Bounds *)

MaxVal == 1
NegVal == 1
Val == (0 - NegVal)..MaxVal

Procs == {"a", "b", "c"}
Pids == {"1", "2"}
Writer == "w"

-----------------------------------------------------------------------------
(* File names *)

NoFile == <<>>
EmptyStore == [k \in {} |-> 0]

\* os.path.basename(f).split('_')
Parts(f) == [i \in 1..Len(f) |-> IF i = Len(f) THEN f[i] \o ".db" ELSE f[i]]

\* the live store of a process: type[_mode]_pid_<id>.db, the names the glob of
\* mark_process_dead matches and whose third (gauge) or second segment is the pid
LiveName(typ, mm, pid) ==
    IF typ = "gauge" THEN <<typ, mm, pid, "0">> ELSE <<typ, pid, "0">>

\* the layout without a trailing segment: type[_mode]_pid.db
ShortName(typ, mm, pid) ==
    IF typ = "gauge" THEN <<typ, mm, pid>> ELSE <<typ, pid>>

\* '{0}_{1}_archived.db'.format(typ, mm) / '{0}_archived.db'.format(typ)
ArchiveName(typ, mm) ==
    IF mm # "" THEN <<typ, mm, "archived">> ELSE <<typ, "archived">>

\* (mutant) glob '*_{pid}_*.db' read as: the second segment is pid
GlobSecond(f, pid) == Len(f) > 2 /\ f[2] = pid

\* glob '*_{pid}_*.db' on a base name: "_pid_" occurs in it, so one of its
\* inner segments is pid
GlobDead(f, pid) == \E i \in 2..(Len(f) - 1) : f[i] = pid

\* (mutant) a prefix test that knows only gauge_livesum
StartsWithLivesum(s) == s = "livesum"

\* fn.startswith('gauge_live')
StartsWithLive(s) == s \in {"live", "livesum", "liveall"}
StartsWithGaugeLive(f) == Len(f) >= 2 /\ f[1] = "gauge" /\ StartsWithLive(f[2])

\* parts[0]; parts[1] if typ == 'gauge' else None; parts[2] if gauge else parts[1]
TypOf(f) == Parts(f)[1]
ModeOf(f) == IF TypOf(f) = "gauge" THEN Parts(f)[2] ELSE ""
PidOf(f) == IF TypOf(f) = "gauge" THEN Parts(f)[3] ELSE Parts(f)[2]
DstOf(f) == ArchiveName(TypOf(f), ModeOf(f))

-----------------------------------------------------------------------------
(* The store collaborator *)

write_value(d, key, value) ==
    [k \in DOMAIN d \cup {key} |-> IF k = key THEN value ELSE d[k]]

\* read_value(key, init): the stored value; absent and init: the key is
\* initialised to 0.0 and 0.0 returned; absent and not init: None (unset)
read_value(d, key, init) ==
    [unset |-> key \notin DOMAIN d /\ ~init,
     v     |-> IF key \in DOMAIN d THEN d[key] ELSE 0,
     d     |-> IF key \in DOMAIN d \/ ~init THEN d ELSE write_value(d, key, 0)]

\* json.dumps((metric_name, name, labelnames+['pid'], labelvalues+[pid]))
Rekey(key, pid) == <<key[1], key[2], Append(key[3], "pid"), Append(key[4], pid)>>

-----------------------------------------------------------------------------
(* compact: the merge of one (key, value) of src into dst *)

\* (mutant) vnow = dst.read_value(key): an absent key reads 0.0
MergeMinFromZero(dst, key, value) ==
    LET r == read_value(dst, key, TRUE)
    IN  IF value < r.v THEN write_value(r.d, key, value) ELSE r.d

MergeMin(dst, key, value) ==
    LET r == read_value(dst, key, FALSE)
    IN  IF r.unset \/ value < r.v THEN write_value(r.d, key, value) ELSE r.d

MergeMax(dst, key, value) ==
    LET r0 == read_value(dst, key, TRUE)
    IN  IF value > r0.v
        THEN LET r == read_value(r0.d, key, FALSE)
             IN  IF r.unset \/ value > r.v
                 THEN write_value(r.d, key, value) ELSE r.d
        ELSE r0.d

\* (mutant) the row is written under the source key, without the pid label
MergeAllNoPid(dst, key, value, pid) == write_value(dst, key, value)

MergeAll(dst, key, value, pid) == write_value(dst, Rekey(key, pid), value)

\* (mutant) dst.write_value(key, value): the current value is not added
MergeAddOverwrites(dst, key, value) == write_value(dst, key, value)

MergeAdd(dst, key, value) ==
    LET r == read_value(dst, key, TRUE)
    IN  write_value(r.d, key, r.v + value)

MergeKey(dst, typ, mm, pid, key, value) ==
    IF typ = "gauge"
    THEN IF mm = "min" THEN MergeMin(dst, key, value)
         ELSE IF mm = "max" THEN MergeMax(dst, key, value)
         ELSE IF mm = "all" THEN MergeAll(dst, key, value, pid)
         ELSE dst
    ELSE MergeAdd(dst, key, value)

-----------------------------------------------------------------------------
(* collect: the scan (lines 31-51) *)

Zip(ln, lv) ==
    [i \in 1..(IF Len(ln) < Len(lv) THEN Len(ln) ELSE Len(lv)) |-> <<ln[i], lv[i]>>]

\* core.Metric(metric_name, 'Multiprocess metric', typ): no mode recorded yet
Metric(mn, typ) == [name |-> mn, type |-> typ, mode |-> "", samples |-> <<>>]

\* the body of the loop over read_all_values() for one (key, value) of file f
AddSample(ms, f, key, value) ==
    LET parts  == Parts(f)
        typ    == parts[1]
        mn     == key[1]
        labels == Zip(key[3], key[4])
        m0     == IF mn \in DOMAIN ms THEN ms[mn] ELSE Metric(mn, typ)
        m1     == IF typ = "gauge" /\ parts[3] # "archived.db"
                  THEN [m0 EXCEPT !.mode = parts[2],
                                  !.samples = Append(@, <<key[2],
                                       labels \o << <<"pid", parts[3]>> >>, value>>)]
                  ELSE [m0 EXCEPT !.samples = Append(@, <<key[2], labels, value>>)]
    IN  [k \in DOMAIN ms \cup {mn} |-> IF k = mn THEN m1 ELSE ms[k]]

\* all (key, value) pairs of one store, added in the store's own order
RECURSIVE AddFile(_, _, _, _)
AddFile(ms, f, d, keys) ==
    IF keys = {} THEN ms
    ELSE LET key == CHOOSE k \in keys : TRUE
         IN  AddFile(AddSample(ms, f, key, d[key]), f, d, keys \ {key})

-----------------------------------------------------------------------------
(* collect: the reconciliation (lines 53-98) *)

Put(fn, k, v) == [x \in DOMAIN fn \cup {k} |-> IF x = k THEN v ELSE fn[x]]
Get0(fn, k) == IF k \in DOMAIN fn THEN fn[k] ELSE 0

RECURSIVE Filter(_, _, _)
\* tuple(l for l in labels if l[0] != drop)  (keep = FALSE)
\* tuple(l for l in labels if l[0] == drop)  (keep = TRUE)
Filter(labels, lname, keep) ==
    IF labels = <<>> THEN <<>>
    ELSE LET rest == Filter(Tail(labels), lname, keep)
         IN  IF (Head(labels)[1] = lname) = keep
             THEN <<Head(labels)>> \o rest ELSE rest

\* float(l[1]) on the threshold strings in use
ParseFloat(s) ==
    CASE s = "1" -> 1 [] s = "5" -> 5 [] s = "10" -> 10 [] OTHER -> 0

\* core._floatToGoString(bucket)
floatToGoString(x) ==
    CASE x = 1 -> "1" [] x = 5 -> "5" [] x = 10 -> "10" [] OTHER -> "0"

\* (mutant) current = samples[k] on the defaultdict: an absent key reads 0.0
GaugeMinFromZero(samples, k, value) ==
    IF value < Get0(samples, k) THEN Put(samples, k, value)
    ELSE Put(samples, k, Get0(samples, k))

\* samples.setdefault(k, value); if value < current: samples[k] = value
GaugeMin(samples, k, value) ==
    IF k \notin DOMAIN samples THEN Put(samples, k, value)
    ELSE IF value < samples[k] THEN Put(samples, k, value) ELSE samples

\* samples.setdefault(k, value); if value > current: samples[k] = value
GaugeMax(samples, k, value) ==
    IF k \notin DOMAIN samples THEN Put(samples, k, value)
    ELSE IF value > samples[k] THEN Put(samples, k, value) ELSE samples

\* (mutant) samples[k] = value
AddToOverwrites(samples, k, value) == Put(samples, k, value)

\* samples[k] += value on a defaultdict(float)
AddTo(samples, k, value) == Put(samples, k, Get0(samples, k) + value)

\* (mutant) the pid label stripped in every mode
GaugeKeyStripsPid(mode, name, labels) == <<name, Filter(labels, "pid", FALSE)>>

\* the key a gauge row is stored under, by mode
GaugeKey(mode, name, labels) ==
    IF mode \in {"min", "max", "livesum"}
    THEN <<name, Filter(labels, "pid", FALSE)>>
    ELSE <<name, labels>>

\* one iteration of "for name, labels, value in metric.samples"
ReconcileSample(st, m, s) ==
    LET name == s[1]  labels == s[2]  value == s[3]
    IN  IF m.type = "gauge"
        THEN LET k == GaugeKey(m.mode, name, labels)
             IN  [st EXCEPT !.samples =
                    IF m.mode = "min" THEN GaugeMin(@, k, value)
                    ELSE IF m.mode = "max" THEN GaugeMax(@, k, value)
                    ELSE IF m.mode = "livesum" THEN AddTo(@, k, value)
                    ELSE Put(@, k, value)]
        ELSE IF m.type = "histogram"
        THEN LET bucket == Filter(labels, "le", TRUE)
             IN  IF bucket # <<>>
                 THEN LET without_le == Filter(labels, "le", FALSE)
                          b  == ParseFloat(bucket[1][2])
                          bs == IF without_le \in DOMAIN st.buckets
                                THEN st.buckets[without_le] ELSE EmptyStore
                      IN  [st EXCEPT !.buckets =
                              Put(@, without_le, AddTo(bs, b, value))]
                 ELSE [st EXCEPT !.samples = AddTo(@, <<name, labels>>, value)]
        ELSE [st EXCEPT !.samples = AddTo(@, <<name, labels>>, value)]

RECURSIVE ReconcileLoop(_, _, _)
ReconcileLoop(st, m, ss) ==
    IF ss = <<>> THEN st
    ELSE ReconcileLoop(ReconcileSample(st, m, Head(ss)), m, Tail(ss))

SetMin(S) == CHOOSE x \in S : \A y \in S : x <= y

RECURSIVE AccBucketsNoSum(_, _, _, _, _, _)
\* (mutant) acc = value: each bucket row gets its own increments only
AccBucketsNoSum(samples, mname, labels, values, left, acc) ==
    IF left = {} THEN [samples |-> samples, acc |-> acc]
    ELSE LET bucket == SetMin(left)
             a      == values[bucket]
         IN  AccBucketsNoSum(
                 Put(samples,
                     <<mname \o "_bucket",
                       labels \o << <<"le", floatToGoString(bucket)>> >> >>, a),
                 mname, labels, values, left \ {bucket}, a)

\* "for bucket, value in sorted(values.items())": the samples with the bucket
\* rows of one label set written, and the final acc
RECURSIVE AccBuckets(_, _, _, _, _, _)
AccBuckets(samples, mname, labels, values, left, acc) ==
    IF left = {} THEN [samples |-> samples, acc |-> acc]
    ELSE LET bucket == SetMin(left)
             a      == acc + values[bucket]
         IN  AccBuckets(
                 Put(samples,
                     <<mname \o "_bucket",
                       labels \o << <<"le", floatToGoString(bucket)>> >> >>, a),
                 mname, labels, values, left \ {bucket}, a)

\* "for labels, values in buckets.items()"
RECURSIVE Accumulate(_, _, _, _)
Accumulate(samples, mname, buckets, left) ==
    IF left = {} THEN samples
    ELSE LET labels == CHOOSE l \in left : TRUE
             r == AccBuckets(samples, mname, labels, buckets[labels],
                             DOMAIN buckets[labels], 0)
         IN  Accumulate(Put(r.samples, <<mname \o "_count", labels>>, r.acc),
                        mname, buckets, left \ {labels})

\* the reconciled samples dict of one metric, keyed by <<name, labels tuple>>
Reconcile(m) ==
    LET st == ReconcileLoop([samples |-> EmptyStore, buckets |-> EmptyStore],
                            m, m.samples)
    IN  IF m.type = "histogram"
        THEN Accumulate(st.samples, m.name, st.buckets, DOMAIN st.buckets)
        ELSE st.samples

\* dict(labels)
Dict(labels) ==
    [n \in {labels[i][1] : i \in 1..Len(labels)} |->
        LET last == CHOOSE i \in 1..Len(labels) :
                        /\ labels[i][1] = n
                        /\ \A j \in 1..Len(labels) : labels[j][1] = n => j <= i
        IN  labels[last][2]]

\* metric.samples = [(name, dict(labels), value) for ...], per metric
Collected(ms) ==
    [mn \in DOMAIN ms |-> [type |-> ms[mn].type, mode |-> ms[mn].mode,
                           samples |-> Reconcile(ms[mn])]]

-----------------------------------------------------------------------------
(* flocking: the coordination lock *)

\* (mutant) an exclusive request that does not wait for shared holders
CanFlockIgnoringShared(op) == lockEX = {}

\* fcntl.flock(fh, op) returns once the kernel can grant op
CanFlock(op) ==
    IF op = "LOCK_SH" THEN lockEX = {} ELSE lockEX = {} /\ lockSH = {}

CollectLockOp == "LOCK_SH"
\* (mutant) compact taking the coordination lock shared
CompactLockShared == "LOCK_SH"
CompactLockOp == "LOCK_EX"

Acquire(p, op) ==
    /\ CanFlock(op)
    /\ lockSH' = IF op = "LOCK_SH" THEN lockSH \cup {p} ELSE lockSH
    /\ lockEX' = IF op = "LOCK_SH" THEN lockEX ELSE lockEX \cup {p}

\* leaving the with block, normally or by an exception: fh is closed
Release(p) ==
    /\ lockSH' = lockSH \ {p}
    /\ lockEX' = lockEX \ {p}

\* (mutant) the handle stays open when the block is left by an exception
KeepOnError(p) == UNCHANGED <<lockSH, lockEX>>

\* an exception raised inside the with block passes through flocking's
\* `with open(...)`, which closes fh
ReleaseOnError(p) == Release(p)

Remove(d, f) == [g \in DOMAIN d \ {f} |-> d[g]]

\* (mutant) the probe does not see the locks of other processes
NoOthers(f, p) == {}

Others(f, p) == {h \in flk : h[2] = f /\ h[1] # p}

-----------------------------------------------------------------------------
(* MultiProcessCollector.collect *)

StartCollect(p) ==
    /\ pc[p] = "idle"
    /\ pc' = [pc EXCEPT ![p] = "c_lock"]
    /\ opk' = [opk EXCEPT ![p] = "collect"]
    /\ UNCHANGED <<dir, flk, lockSH, lockEX, arg, todo, cur, kq, metrics,
                   result, snap, probed, acted>>

\* with flocking(..., LOCK_SH): glob('*.db')
collect_lock(p) ==
    /\ pc[p] = "c_lock"
    /\ Acquire(p, CollectLockOp)
    /\ todo' = [todo EXCEPT ![p] = DOMAIN dir]
    /\ snap' = [snap EXCEPT ![p] = dir]
    /\ pc' = [pc EXCEPT ![p] = "c_scan"]
    /\ UNCHANGED <<dir, flk, opk, arg, cur, kq, metrics, result, probed, acted>>

\* one iteration of the loop over the globbed files, in any order
collect_read(p, f) ==
    /\ pc[p] = "c_scan"
    /\ f \in todo[p]
    /\ todo' = [todo EXCEPT ![p] = @ \ {f}]
    /\ IF f \in DOMAIN dir
       THEN /\ metrics' = [metrics EXCEPT ![p] = AddFile(@, f, dir[f], DOMAIN dir[f])]
            /\ UNCHANGED <<lockSH, lockEX, pc>>
       ELSE \* the store is gone: opening it raises, the lock scope is left
            /\ ReleaseOnError(p)
            /\ pc' = [pc EXCEPT ![p] = "err"]
            /\ UNCHANGED metrics
    /\ UNCHANGED <<dir, flk, opk, arg, cur, kq, result, snap, probed, acted>>

\* the lock scope is left and the metrics are reconciled and returned
collect_return(p) ==
    /\ pc[p] = "c_scan"
    /\ todo[p] = {}
    /\ Release(p)
    /\ result' = [result EXCEPT ![p] = Collected(metrics[p])]
    /\ pc' = [pc EXCEPT ![p] = "done"]
    /\ UNCHANGED <<dir, flk, opk, arg, todo, cur, kq, metrics, snap, probed, acted>>

-----------------------------------------------------------------------------
(* compact *)

StartCompact(p, f) ==
    /\ pc[p] = "idle"
    /\ pc' = [pc EXCEPT ![p] = "k_lock"]
    /\ opk' = [opk EXCEPT ![p] = "compact"]
    /\ cur' = [cur EXCEPT ![p] = f]
    /\ UNCHANGED <<dir, flk, lockSH, lockEX, arg, todo, kq, metrics, result,
                   snap, probed, acted>>

\* with flocking(..., LOCK_EX)
compact_lock(p) ==
    /\ pc[p] = "k_lock"
    /\ Acquire(p, CompactLockOp)
    /\ pc' = [pc EXCEPT ![p] = "k_open"]
    /\ UNCHANGED <<dir, flk, opk, arg, todo, cur, kq, metrics, result, snap,
                   probed, acted>>

\* src = _MmapedDict(srcf, read_mode=True); dst = _MmapedDict(dstf)
compact_open(p) ==
    /\ pc[p] = "k_open"
    /\ IF cur[p] \in DOMAIN dir
       THEN /\ dir' = IF DstOf(cur[p]) \in DOMAIN dir THEN dir
                      ELSE Put(dir, DstOf(cur[p]), EmptyStore)
            /\ kq' = [kq EXCEPT ![p] = DOMAIN dir[cur[p]]]
            /\ snap' = [snap EXCEPT ![p] = dir]
            /\ pc' = [pc EXCEPT ![p] = "k_merge"]
            /\ UNCHANGED <<lockSH, lockEX>>
       ELSE /\ ReleaseOnError(p)
            /\ pc' = [pc EXCEPT ![p] = "err"]
            /\ UNCHANGED <<dir, kq, snap>>
    /\ UNCHANGED <<flk, opk, arg, todo, cur, metrics, result, probed, acted>>

\* one iteration of "for key, value in src.read_all_values()"
compact_merge(p, key) ==
    /\ pc[p] = "k_merge"
    /\ key \in kq[p]
    /\ kq' = [kq EXCEPT ![p] = @ \ {key}]
    /\ dir' = [dir EXCEPT ![DstOf(cur[p])] =
                  MergeKey(@, TypOf(cur[p]), ModeOf(cur[p]), PidOf(cur[p]),
                           key, snap[p][cur[p]][key])]
    /\ UNCHANGED <<flk, lockSH, lockEX, pc, opk, arg, todo, cur, metrics,
                   result, snap, probed, acted>>

\* os.unlink(srcf)
compact_unlink(p) ==
    /\ pc[p] = "k_merge"
    /\ kq[p] = {}
    /\ IF cur[p] \in DOMAIN dir
       THEN /\ dir' = Remove(dir, cur[p])
            /\ pc' = [pc EXCEPT ![p] = "k_close"]
            /\ UNCHANGED <<lockSH, lockEX>>
       ELSE /\ ReleaseOnError(p)
            /\ pc' = [pc EXCEPT ![p] = "err"]
            /\ UNCHANGED dir
    /\ UNCHANGED <<flk, opk, arg, todo, cur, kq, metrics, result, snap, probed, acted>>

\* the process dies inside the merge loop, before os.unlink(srcf): what it
\* wrote to the archive stays, its descriptors and with them the lock are gone
compact_crash(p) ==
    /\ pc[p] = "k_merge"
    /\ Release(p)
    /\ pc' = [pc EXCEPT ![p] = "crashed"]
    /\ UNCHANGED <<dir, flk, opk, arg, todo, cur, kq, metrics, result, snap,
                   probed, acted>>

\* dst.close(); src.close(); the lock scope is left
compact_close(p) ==
    /\ pc[p] = "k_close"
    /\ Release(p)
    /\ pc' = [pc EXCEPT ![p] = IF opk[p] = "dead" THEN "d_loop" ELSE "done"]
    /\ UNCHANGED <<dir, flk, opk, arg, todo, cur, kq, metrics, result, snap,
                   probed, acted>>

-----------------------------------------------------------------------------
(* mark_process_dead *)

\* glob(os.path.join(path, '*_{0}_*.db'.format(pid)))
StartDead(p, pid) ==
    /\ pc[p] = "idle"
    /\ pc' = [pc EXCEPT ![p] = "d_loop"]
    /\ opk' = [opk EXCEPT ![p] = "dead"]
    /\ arg' = [arg EXCEPT ![p] = pid]
    /\ todo' = [todo EXCEPT ![p] = {f \in DOMAIN dir : GlobDead(f, pid)}]
    /\ UNCHANGED <<dir, flk, lockSH, lockEX, cur, kq, metrics, result, snap,
                   probed, acted>>

\* with open(f, 'rb') as lfh: flock(lfh, LOCK_EX|LOCK_NB)
dead_probe(p, f) ==
    /\ pc[p] = "d_loop"
    /\ f \in todo[p]
    /\ todo' = [todo EXCEPT ![p] = @ \ {f}]
    /\ cur' = [cur EXCEPT ![p] = f]
    /\ IF f \notin DOMAIN dir
       THEN /\ pc' = [pc EXCEPT ![p] = "err"]
            /\ UNCHANGED flk
       ELSE IF Others(f, p) # {}
       THEN \* EWOULDBLOCK: continue
            /\ UNCHANGED <<pc, flk>>
       ELSE /\ flk' = flk \cup {<<p, f>>}
            /\ pc' = [pc EXCEPT ![p] = "d_close"]
    /\ UNCHANGED <<dir, lockSH, lockEX, opk, arg, kq, metrics, result, snap,
                   probed, acted>>

\* flock(lfh, LOCK_EX|LOCK_NB) on a file nobody holds raises IOError with an
\* errno other than EWOULDBLOCK: the error is raised again and ends the call
dead_probe_error(p, f) ==
    /\ pc[p] = "d_loop"
    /\ f \in todo[p]
    /\ f \in DOMAIN dir
    /\ Others(f, p) = {}
    /\ todo' = [todo EXCEPT ![p] = @ \ {f}]
    /\ cur' = [cur EXCEPT ![p] = f]
    /\ pc' = [pc EXCEPT ![p] = "err"]
    /\ UNCHANGED <<dir, flk, lockSH, lockEX, opk, arg, kq, metrics, result, snap,
                   probed, acted>>

\* the with block is left: lfh is closed and its lock dropped
dead_close(p) ==
    /\ pc[p] = "d_close"
    /\ flk' = flk \ {<<p, cur[p]>>}
    /\ probed' = [probed EXCEPT ![p] = @ \cup {cur[p]}]
    /\ pc' = [pc EXCEPT ![p] = "d_act"]
    /\ UNCHANGED <<dir, lockSH, lockEX, opk, arg, todo, cur, kq, metrics,
                   result, snap, acted>>

\* if fn.startswith('gauge_live'): os.remove(f)  else: compact(f)
dead_act(p) ==
    /\ pc[p] = "d_act"
    /\ IF StartsWithGaugeLive(cur[p])
       THEN IF cur[p] \in DOMAIN dir
            THEN /\ dir' = Remove(dir, cur[p])
                 /\ acted' = [acted EXCEPT ![p] = @ \cup {<<cur[p], "remove">>}]
                 /\ pc' = [pc EXCEPT ![p] = "d_loop"]
            ELSE /\ pc' = [pc EXCEPT ![p] = "err"]
                 /\ UNCHANGED <<dir, acted>>
       ELSE /\ acted' = [acted EXCEPT ![p] = @ \cup {<<cur[p], "compact">>}]
            /\ pc' = [pc EXCEPT ![p] = "k_lock"]
            /\ UNCHANGED dir
    /\ UNCHANGED <<flk, lockSH, lockEX, opk, arg, todo, cur, kq, metrics,
                   result, snap, probed>>

dead_return(p) ==
    /\ pc[p] = "d_loop"
    /\ todo[p] = {}
    /\ pc' = [pc EXCEPT ![p] = "done"]
    /\ UNCHANGED <<dir, flk, lockSH, lockEX, opk, arg, todo, cur, kq, metrics,
                   result, snap, probed, acted>>

-----------------------------------------------------------------------------
(* Another process (a live writer whose pid was reused, a leaked descriptor)
   holding the advisory lock of a store file *)

holder_lock(f) ==
    /\ f \in DOMAIN dir
    /\ {h \in flk : h[2] = f} = {}
    /\ flk' = flk \cup {<<Writer, f>>}
    /\ UNCHANGED <<dir, lockSH, lockEX, pc, opk, arg, todo, cur, kq, metrics,
                   result, snap, probed, acted>>

holder_unlock(f) ==
    /\ <<Writer, f>> \in flk
    /\ flk' = flk \ {<<Writer, f>>}
    /\ UNCHANGED <<dir, lockSH, lockEX, pc, opk, arg, todo, cur, kq, metrics,
                   result, snap, probed, acted>>

-----------------------------------------------------------------------------
(* Specifications *)

Key(mn, name, lv) == <<mn, name, <<"l">>, <<lv>> >>

InitProcs ==
    /\ flk = {}
    /\ lockSH = {}
    /\ lockEX = {}
    /\ pc = [p \in Procs |-> "idle"]
    /\ opk = [p \in Procs |-> "none"]
    /\ arg = [p \in Procs |-> ""]
    /\ todo = [p \in Procs |-> {}]
    /\ cur = [p \in Procs |-> NoFile]
    /\ kq = [p \in Procs |-> {}]
    /\ metrics = [p \in Procs |-> EmptyStore]
    /\ result = [p \in Procs |-> EmptyStore]
    /\ snap = [p \in Procs |-> EmptyStore]
    /\ probed = [p \in Procs |-> {}]
    /\ acted = [p \in Procs |-> {}]

\* Scrapes, death handling and compactions of three processes on one directory
ConcDir ==
    LET c1 == LiveName("counter", "", "1")
        c2 == LiveName("counter", "", "2")
        g1 == LiveName("gauge", "livesum", "1")
    IN  [f \in {c1, c2, g1} |->
            IF f = c1 THEN [k \in {Key("c", "c", "x"), Key("c", "c", "y")} |-> 1]
            ELSE IF f = c2 THEN [k \in {Key("c", "c", "x")} |-> 1]
            ELSE [k \in {Key("g", "g", "x")} |-> 1]]

InitConc == InitProcs /\ dir = ConcDir

NextConc ==
    \/ \E p \in Procs : StartCollect(p)
    \/ \E p \in Procs : collect_lock(p)
    \/ \E p \in Procs : \E f \in todo[p] : collect_read(p, f)
    \/ \E p \in Procs : collect_return(p)
    \/ \E p \in Procs : \E pid \in Pids : StartDead(p, pid)
    \/ \E p \in Procs : \E f \in todo[p] : dead_probe(p, f)
    \/ \E p \in Procs : dead_close(p)
    \/ \E p \in Procs : dead_act(p)
    \/ \E p \in Procs : dead_return(p)
    \/ \E p \in Procs : compact_lock(p)
    \/ \E p \in Procs : compact_open(p)
    \/ \E p \in Procs : \E key \in kq[p] : compact_merge(p, key)
    \/ \E p \in Procs : compact_unlink(p)
    \/ \E p \in Procs : compact_close(p)

SpecConc == InitConc /\ [][NextConc]_vars

-----------------------------------------------------------------------------
(* Claims on the locking protocol, under SpecConc *)

\* collect is in its directory-scan-and-read section
InScan(p) == pc[p] = "c_scan"
\* compact is between acquiring and releasing the coordination lock
InCompact(p) == pc[p] \in {"k_open", "k_merge", "k_close"}
\* compact has merged a key of src into the archive and src is still there
HalfMerged(q) == pc[q] = "k_merge" /\ kq[q] # DOMAIN snap[q][cur[q]]

\* C1: while a compact() is between acquiring and releasing the coordination
\* lock, no collect() is in its scan-and-read section and no other compact()
\* is in its merge-and-delete section.
C1_CompactExcludesAll ==
    \A p \in Procs : InCompact(p) =>
        \A q \in Procs \ {p} : ~InScan(q) /\ ~InCompact(q)

\* a compact() is merging while a collect() and another compact() wait for
\* the lock
C1_Witness ==
    \E p, q, r \in Procs :
        /\ pc[p] = "k_merge" /\ kq[p] # {}
        /\ pc[q] = "c_lock"
        /\ pc[r] = "k_lock"

\* two collect() calls are in their scan-and-read sections at the same time
C1_ScansOverlap ==
    \E p, q \in Procs : p # q /\ InScan(p) /\ InScan(q)
                        /\ todo[p] # {} /\ todo[q] # {}

\* C2: a collect() in its scan reads the directory as it was when it took the
\* lock, and that state is not inside a compaction: no compact() has merged
\* keys of a source that is still present, and every store that is archived
\* or compacted is the same as at the moment the lock was taken.
C2_ScanSeesNoIntermediate ==
    \A p \in Procs : InScan(p) =>
        /\ \A q \in Procs : ~HalfMerged(q)
        /\ \A f \in DOMAIN dir \cup DOMAIN snap[p] :
              ~StartsWithGaugeLive(f) =>
                  /\ f \in DOMAIN dir
                  /\ f \in DOMAIN snap[p]
                  /\ dir[f] = snap[p][f]

\* a collect() has read part of a directory that an earlier compaction changed
\* while the next compact() waits for the lock
C2_Witness ==
    \E p, q \in Procs :
        /\ InScan(p) /\ todo[p] # {} /\ todo[p] # DOMAIN snap[p]
        /\ DOMAIN snap[p] # DOMAIN ConcDir
        /\ pc[q] = "k_lock"

-----------------------------------------------------------------------------
(* Death handling of two processes racing with a holder of the store locks *)

DeadProcs == {"a", "b"}

DeadDir ==
    LET c1 == LiveName("counter", "", "1")
        s1 == LiveName("gauge", "livesum", "1")
        a2 == LiveName("gauge", "liveall", "2")
        m2 == LiveName("gauge", "min", "2")
    IN  [f \in {c1, s1, a2, m2} |->
            IF f = c1 THEN [k \in {Key("c", "c", "x")} |-> 1]
            ELSE [k \in {Key("g", "g", "x")} |-> 1]]

InitDead ==
    /\ InitProcs
    /\ dir = DeadDir

NextDead ==
    \/ \E p \in DeadProcs : \E pid \in Pids : StartDead(p, pid)
    \/ \E p \in DeadProcs : \E f \in todo[p] : dead_probe(p, f)
    \/ \E p \in DeadProcs : dead_close(p)
    \/ \E p \in DeadProcs : dead_act(p)
    \/ \E p \in DeadProcs : dead_return(p)
    \/ \E p \in DeadProcs : compact_lock(p)
    \/ \E p \in DeadProcs : compact_open(p)
    \/ \E p \in DeadProcs : \E key \in kq[p] : compact_merge(p, key)
    \/ \E p \in DeadProcs : compact_unlink(p)
    \/ \E p \in DeadProcs : compact_close(p)
    \/ \E f \in DOMAIN dir : holder_lock(f)
    \/ \E f \in DOMAIN DeadDir : holder_unlock(f)

SpecDead == InitDead /\ [][NextDead]_vars

\* the step is one of process p
Moved(p) == pc'[p] # pc[p] \/ kq'[p] # kq[p] \/ todo'[p] # todo[p]

\* C3: mark_process_dead never deletes a store file, and never merges it into
\* the archive, in a step taken while another process holds an advisory lock
\* on that file.
C3_NeverActsOnLockedFile ==
    [][\A p \in Procs :
          (opk[p] = "dead" /\ Moved(p) /\ dir' # dir) => Others(cur[p], p) = {}]_vars

\* gauge/livesum or gauge/liveall
LiveTagged(f) == f[1] = "gauge" /\ f[2] \in {"livesum", "liveall"}

\* C4: of the files whose probe succeeded, mark_process_dead removes the
\* live-tagged gauge stores and never compacts them (no archive of a live mode
\* comes to exist), passes every other one to compact(), and once it has
\* returned none of them exists.
C4_LiveRemovedOthersCompacted ==
    \A p \in Procs : opk[p] = "dead" =>
        /\ \A a \in acted[p] :
              /\ a[1] \in probed[p]
              /\ (a[2] = "remove") <=> LiveTagged(a[1])
              /\ (a[2] = "compact") <=> ~LiveTagged(a[1])
        /\ \A mm \in {"livesum", "liveall"} :
              ArchiveName("gauge", mm) \notin DOMAIN dir
        /\ pc[p] = "done" =>
              \A f \in probed[p] :
                  /\ f \notin DOMAIN dir
                  /\ \E a \in acted[p] : a[1] = f

\* a mark_process_dead has returned after removing a live-tagged gauge store
\* and compacting another store of the same pid
C4_Witness ==
    \E p \in Procs :
        /\ opk[p] = "dead" /\ pc[p] = "done"
        /\ \E a, b \in acted[p] : a[2] = "remove" /\ b[2] = "compact"

-----------------------------------------------------------------------------
(* One scrape of a directory of two live stores and the archive of one class:
   the stores hold any values of the class's keys, and collect() scans them in
   any order *)

CollectProcs == {"a"}

\* every store over a subset of keys
StoreSet(keys, vals) == UNION {[S -> vals] : S \in SUBSET keys}

Dir3(f1, s1, f2, s2, f3, s3) ==
    [f \in {f1, f2, f3} |-> IF f = f1 THEN s1 ELSE IF f = f2 THEN s2 ELSE s3]

\* the directories of class (typ, mm): stores of pids 1 and 2 and the archive
ClassDirs(typ, mm, keys1, keys2, keysA, vals) ==
    {Dir3(LiveName(typ, mm, "1"), s1, LiveName(typ, mm, "2"), s2,
          ArchiveName(typ, mm), sA) :
        s1 \in StoreSet(keys1, vals), s2 \in StoreSet(keys2, vals),
        sA \in StoreSet(keysA, vals)}

NextCollect ==
    \/ \E p \in CollectProcs : StartCollect(p)
    \/ \E p \in CollectProcs : collect_lock(p)
    \/ \E p \in CollectProcs : \E f \in todo[p] : collect_read(p, f)
    \/ \E p \in CollectProcs : collect_return(p)

Returned(p) == opk[p] = "collect" /\ pc[p] = "done"

RECURSIVE SumOver(_, _, _)
\* the sum of the values stored under key in the files fs of directory d
SumOver(d, fs, key) ==
    IF fs = {} THEN 0
    ELSE LET f == CHOOSE g \in fs : TRUE
         IN  (IF key \in DOMAIN d[f] THEN d[f][key] ELSE 0)
             + SumOver(d, fs \ {f}, key)

Holding(d, key) == {f \in DOMAIN d : key \in DOMAIN d[f]}
KeysIn(d) == UNION {DOMAIN d[f] : f \in DOMAIN d}

\* the exposed samples of a reconciled metric with this name and label map
Exposed(m, name, labels) ==
    {j \in DOMAIN m.samples : j[1] = name /\ Dict(j[2]) = Dict(labels)}

(* Counter and summary *)

SumKeys(typ) ==
    IF typ = "counter"
    THEN {Key("c", "c_total", "x"), Key("c", "c_total", "y")}
    ELSE {Key("s", "s_sum", "x"), Key("s", "s_count", "x")}

InitSum ==
    /\ InitProcs
    /\ \E typ \in {"counter", "summary"} :
          dir \in ClassDirs(typ, "", SumKeys(typ), SumKeys(typ),
                            {k \in SumKeys(typ) : k[4] = <<"x">>}, 0..MaxVal)

SpecSum == InitSum /\ [][NextCollect]_vars

\* C5: for a counter or summary metric and every (sample_name, labels) key,
\* collect() reports exactly one sample, whose value is the sum of the values
\* stored under that key in every store file of the directory, whatever the
\* order of the scan.
C5_CounterSum ==
    \A p \in Procs : Returned(p) =>
        \A key \in KeysIn(dir) :
            LET m == result[p][key[1]]
                k == <<key[2], Zip(key[3], key[4])>>
            IN  /\ m.type \in {"counter", "summary"}
                /\ k \in DOMAIN m.samples
                /\ m.samples[k] = SumOver(dir, DOMAIN dir, key)
                /\ Cardinality(Exposed(m, k[1], k[2])) = 1

\* a collect() has returned a sum of three non-zero values, one per store
C5_Witness ==
    \E p \in Procs : Returned(p) /\
        \E key \in KeysIn(dir) :
            /\ Holding(dir, key) = DOMAIN dir
            /\ \A f \in DOMAIN dir : dir[f][key] > 0
            /\ result[p][key[1]].samples[<<key[2], Zip(key[3], key[4])>>] = 3

-----------------------------------------------------------------------------
(* Gauges in mode min, max and livesum *)

GaugeKeys == {Key("g", "g", "x"), Key("g", "g", "y")}

InitGauge ==
    /\ InitProcs
    /\ \E mm \in {"min", "max", "livesum"} :
          dir \in ClassDirs("gauge", mm, GaugeKeys, GaugeKeys,
                            {Key("g", "g", "x")}, Val)

SpecGauge == InitGauge /\ [][NextCollect]_vars

ValuesOf(d, key) == {d[f][key] : f \in Holding(d, key)}
Least(S) == CHOOSE x \in S : \A y \in S : x <= y
Greatest(S) == CHOOSE x \in S : \A y \in S : x >= y

\* C6: for a gauge metric in mode min, max or livesum, collect() exposes for
\* each (sample_name, labels without pid) exactly one sample, whose value is the
\* minimum, the maximum or the sum of all rows of that stripped key across the
\* files; 0 is never an implicit starting value of min or max.
C6_GaugeExtremum ==
    \A p \in Procs : Returned(p) =>
        \A key \in KeysIn(dir) :
            LET m == result[p][key[1]]
                k == <<key[2], Zip(key[3], key[4])>>
                vals == ValuesOf(dir, key)
            IN  m.mode \in {"min", "max", "livesum"} =>
                  /\ k \in DOMAIN m.samples
                  /\ Cardinality({j \in DOMAIN m.samples :
                        j[1] = k[1] /\ Filter(j[2], "pid", FALSE) = k[2]}) = 1
                  /\ m.mode = "min" => m.samples[k] = Least(vals)
                  /\ m.mode = "max" => m.samples[k] = Greatest(vals)
                  /\ m.mode = "livesum" =>
                        m.samples[k] = SumOver(dir, DOMAIN dir, key)
                  /\ (\A v \in vals : v > 0) /\ m.mode = "min" => m.samples[k] > 0
                  /\ (\A v \in vals : v < 0) /\ m.mode = "max" => m.samples[k] < 0

\* a collect() has returned a positive minimum of three positive rows
C6_Witness ==
    \E p \in Procs : Returned(p) /\
        \E key \in KeysIn(dir) :
            /\ Holding(dir, key) = DOMAIN dir
            /\ \A f \in DOMAIN dir : dir[f][key] > 0
            /\ result[p][key[1]].mode = "min"
            /\ result[p][key[1]].samples[<<key[2], Zip(key[3], key[4])>>] > 0

-----------------------------------------------------------------------------
(* Gauges in mode all and liveall: the archive of mode all holds rows re-keyed
   with the pid of a dead process, which a new process may bear again *)

ArchivedAllKeys == {Rekey(Key("g", "g", "x"), "3"), Rekey(Key("g", "g", "x"), "1")}

InitAll ==
    /\ InitProcs
    /\ \E mm \in {"all", "liveall"} :
          dir \in ClassDirs("gauge", mm, GaugeKeys, {Key("g", "g", "x")},
                            IF mm = "all" THEN ArchivedAllKeys ELSE {}, Val)

SpecAll == InitAll /\ [][NextCollect]_vars

\* the rows <<file, key>> of a directory
Rows(d) == {r \in (DOMAIN d) \X KeysIn(d) : r[2] \in DOMAIN d[r[1]]}
IsArchive(f) == f[Len(f)] = "archived"
\* the pid of the process a live store belongs to
OwnerOf(f) == CHOOSE pid \in Pids : \E mm \in {"all", "liveall"} :
                  f = LiveName("gauge", mm, pid)
\* the sample a row is exposed as: the archive's rows carry their pid label
\* in the key, a live store's rows get the pid of the store
SampleOf(r) ==
    IF IsArchive(r[1])
    THEN <<r[2][2], Zip(r[2][3], r[2][4])>>
    ELSE <<r[2][2], Zip(r[2][3], r[2][4]) \o << <<"pid", OwnerOf(r[1])>> >> >>

\* C8: for a gauge in mode all or liveall, collect() exposes one sample per
\* (sample_name, labels, pid): rows of different pids are never merged, every
\* exposed sample is a row of a store with that store's pid label and value,
\* and a row whose pid no other store bears is exposed with its own value.
C8_GaugeAllPerPid ==
    \A p \in Procs : Returned(p) =>
        \A mn \in DOMAIN result[p] :
            LET m == result[p][mn]
                rows == Rows(dir)
            IN  /\ DOMAIN m.samples = {SampleOf(r) : r \in rows}
                /\ \A j \in DOMAIN m.samples :
                      \E r \in rows : SampleOf(r) = j
                                      /\ m.samples[j] = dir[r[1]][r[2]]
                /\ \A r \in rows :
                      (\A r2 \in rows : SampleOf(r2) = SampleOf(r) => r2 = r)
                          => m.samples[SampleOf(r)] = dir[r[1]][r[2]]
                /\ \A r, r2 \in rows :
                      (~IsArchive(r[1]) /\ ~IsArchive(r2[1]) /\ r[1] # r2[1])
                          => SampleOf(r) # SampleOf(r2)

\* a collect() has returned two samples of one key, one per pid, with the
\* different values of the two stores
C8_Witness ==
    \E p \in Procs : Returned(p) /\
        \E mm \in {"all", "liveall"} :
            LET f1 == LiveName("gauge", mm, "1")
                f2 == LiveName("gauge", mm, "2")
                key == Key("g", "g", "x")
                s == result[p]["g"].samples
            IN  /\ f1 \in DOMAIN dir /\ f2 \in DOMAIN dir
                /\ key \in DOMAIN dir[f1] /\ key \in DOMAIN dir[f2]
                /\ dir[f1][key] # dir[f2][key]
                /\ s[<<"g", << <<"l", "x">>, <<"pid", "1">> >> >>] = dir[f1][key]
                /\ s[<<"g", << <<"l", "x">>, <<"pid", "2">> >> >>] = dir[f2][key]

-----------------------------------------------------------------------------
(* Histograms *)

Bucket(l, le) == <<"h", "h_bucket", <<"l", "le">>, <<l, le>> >>
HistSum == Key("h", "h_sum", "x")

InitHist ==
    /\ InitProcs
    /\ dir \in ClassDirs("histogram", "",
                         {Bucket("x", "1"), Bucket("x", "5"), HistSum},
                         {Bucket("x", "10"), Bucket("y", "1")},
                         {Bucket("x", "1"), Bucket("x", "5")}, 0..MaxVal)

SpecHist == InitHist /\ [][NextCollect]_vars

IsBucket(key) == Len(key[3]) = 2
\* the numeric threshold of a bucket key
Threshold(key) ==
    CASE key[4][2] = "1" -> 1 [] key[4][2] = "5" -> 5 [] key[4][2] = "10" -> 10
\* the labels of a bucket key without the threshold label
GroupOf(key) == << <<"l", key[4][1]>> >>

RECURSIVE SumRows(_, _)
SumRows(d, rows) ==
    IF rows = {} THEN 0
    ELSE LET r == CHOOSE x \in rows : TRUE
         IN  d[r[1]][r[2]] + SumRows(d, rows \ {r})

\* the increments of all thresholds at or below that of key, in all files
AtOrBelow(d, key) ==
    {r \in Rows(d) : /\ IsBucket(r[2])
                     /\ GroupOf(r[2]) = GroupOf(key)
                     /\ Threshold(r[2]) <= Threshold(key)}

BucketSample(key) == <<"h_bucket", GroupOf(key) \o << <<"le", key[4][2]>> >> >>

\* C7: for a histogram and each label set without the threshold label,
\* collect() exposes for each threshold one bucket sample whose value is the
\* sum, over all files, of the increments of all thresholds at or below it
\* (so the counts are non-decreasing in the threshold), and a count sample
\* equal to the cumulative value at the largest threshold, whatever the scan
\* order.
C7_HistogramCumulative ==
    \A p \in Procs : Returned(p) =>
        \A key \in {k \in KeysIn(dir) : IsBucket(k)} :
            LET s == result[p]["h"].samples
                same == {k \in KeysIn(dir) : IsBucket(k) /\ GroupOf(k) = GroupOf(key)}
            IN  /\ BucketSample(key) \in DOMAIN s
                /\ s[BucketSample(key)] = SumRows(dir, AtOrBelow(dir, key))
                /\ Cardinality({j \in DOMAIN s : j[1] = "h_bucket"
                       /\ Dict(j[2]) = Dict(BucketSample(key)[2])}) = 1
                /\ \A k2 \in same : Threshold(key) <= Threshold(k2) =>
                       s[BucketSample(key)] <= s[BucketSample(k2)]
                /\ (\A k2 \in same : Threshold(k2) <= Threshold(key)) =>
                       /\ <<"h_count", GroupOf(key)>> \in DOMAIN s
                       /\ s[<<"h_count", GroupOf(key)>>] = s[BucketSample(key)]

\* a collect() has returned bucket(le=1) = 2, bucket(le=5) = 3 and count = 3
\* from increments {le=1: 2, le=5: 1} spread over the files
C7_Witness ==
    \E p \in Procs : Returned(p) /\ "h" \in DOMAIN result[p] /\
        LET s == result[p]["h"].samples
            g == << <<"l", "x">> >>
        IN  /\ <<"h_count", g>> \in DOMAIN s
            /\ BucketSample(Bucket("x", "1")) \in DOMAIN s
            /\ BucketSample(Bucket("x", "5")) \in DOMAIN s
            /\ s[BucketSample(Bucket("x", "1"))] = 2
            /\ s[BucketSample(Bucket("x", "5"))] = 3
            /\ s[<<"h_count", g>>] = 3

-----------------------------------------------------------------------------
(* One compact() of the gauge store of a dead process, mode min or max, into an
   archive that is absent or holds any values *)

CompactProcs == {"a"}

CompactDirs(typ, mm, keys, vals) ==
    {Put(EmptyStore, LiveName(typ, mm, "1"), s) : s \in StoreSet(keys, vals)}
    \cup
    {Put(Put(EmptyStore, LiveName(typ, mm, "1"), s), ArchiveName(typ, mm), a) :
        s \in StoreSet(keys, vals), a \in StoreSet(keys, vals)}

InitCompact ==
    /\ InitProcs
    /\ \E mm \in {"min", "max"} :
          dir \in CompactDirs("gauge", mm, GaugeKeys, Val)

NextCompact ==
    \/ \E p \in CompactProcs :
          \E f \in {g \in DOMAIN dir : g[Len(g)] # "archived"} : StartCompact(p, f)
    \/ \E p \in CompactProcs : compact_lock(p)
    \/ \E p \in CompactProcs : compact_open(p)
    \/ \E p \in CompactProcs : \E key \in kq[p] : compact_merge(p, key)
    \/ \E p \in CompactProcs : compact_unlink(p)
    \/ \E p \in CompactProcs : compact_close(p)

SpecCompact == InitCompact /\ [][NextCompact]_vars

\* compact() of p has merged every key of its source
Merged(p) == opk[p] = "compact" /\ pc[p] \in {"k_close", "done"}
\* the source as compact() opened it, and the archive before and after
SrcOf(p) == snap[p][cur[p]]
WasIn(p, key) == /\ DstOf(cur[p]) \in DOMAIN snap[p]
                 /\ key \in DOMAIN snap[p][DstOf(cur[p])]
Before(p, key) == snap[p][DstOf(cur[p])][key]
After(p) == dir[DstOf(cur[p])]

\* C9: compact() of a gauge/min source leaves, for every key of the source,
\* min(previous archive value, source value) in the archive when the key was
\* present and exactly the source value when it was absent.
C9_CompactMin ==
    \A p \in Procs : (Merged(p) /\ cur[p][2] = "min") =>
        \A key \in DOMAIN SrcOf(p) :
            /\ key \in DOMAIN After(p)
            /\ After(p)[key] =
                  IF WasIn(p, key)
                  THEN Least({Before(p, key), SrcOf(p)[key]})
                  ELSE SrcOf(p)[key]

\* a positive value of a gauge/min source has been compacted into an archive
\* without its key and is still positive
C9_Witness ==
    \E p \in Procs : Merged(p) /\ cur[p][2] = "min" /\
        \E key \in DOMAIN SrcOf(p) :
            /\ ~WasIn(p, key)
            /\ SrcOf(p)[key] > 0
            /\ After(p)[key] > 0

\* C10: compact() of a gauge/max source leaves, for every key of the source,
\* max(previous archive value, source value) in the archive when the key was
\* present and exactly the source value when it was absent, negative values
\* included.
C10_CompactMax ==
    \A p \in Procs : (Merged(p) /\ cur[p][2] = "max") =>
        \A key \in DOMAIN SrcOf(p) :
            /\ key \in DOMAIN After(p)
            /\ After(p)[key] =
                  IF WasIn(p, key)
                  THEN Greatest({Before(p, key), SrcOf(p)[key]})
                  ELSE SrcOf(p)[key]

-----------------------------------------------------------------------------
(* One compact() of a store of an additive class (counter, histogram, summary)
   or of a gauge/livesum store, which compact() accepts like any other path *)

AddClasses == {<<"counter", "">>, <<"histogram", "">>, <<"summary", "">>,
               <<"gauge", "livesum">>}

ClassKeys(c) ==
    IF c[1] = "histogram" THEN {Bucket("x", "1"), HistSum}
    ELSE IF c[1] = "gauge" THEN GaugeKeys
    ELSE SumKeys(c[1])

InitAdd ==
    /\ InitProcs
    /\ \E c \in AddClasses : dir \in CompactDirs(c[1], c[2], ClassKeys(c), Val)

SpecAdd == InitAdd /\ [][NextCompact]_vars

\* the archive value before compact(), 0.0 when the key was absent
Before0(p, key) == IF WasIn(p, key) THEN Before(p, key) ELSE 0
\* the archive before compact(), empty when there was none
ArchiveBefore(p) ==
    IF DstOf(cur[p]) \in DOMAIN snap[p] THEN snap[p][DstOf(cur[p])] ELSE EmptyStore

\* C11 as stated: compact() of a counter, histogram, summary or gauge/livesum
\* source leaves, for every key of the source, the previous archive value (0.0
\* when absent) plus the source value in the archive; no key is dropped.
C11_CompactAddsAllClasses ==
    \A p \in Procs : Merged(p) =>
        \A key \in DOMAIN SrcOf(p) :
            /\ key \in DOMAIN After(p)
            /\ After(p)[key] = Before0(p, key) + SrcOf(p)[key]

\* C11 (amended): compact() of a counter, histogram or summary source leaves,
\* for every key of the source, the previous archive value (0.0 when absent)
\* plus the source value in the archive, and no key is dropped; a
\* gauge/livesum source is unlinked and none of its keys is written: the
\* archive holds what it held before.
C11_CompactAdds ==
    \A p \in Procs : Merged(p) =>
        /\ cur[p][1] # "gauge" =>
              \A key \in DOMAIN SrcOf(p) :
                  /\ key \in DOMAIN After(p)
                  /\ After(p)[key] = Before0(p, key) + SrcOf(p)[key]
        /\ cur[p][1] = "gauge" => After(p) = ArchiveBefore(p)
        /\ cur[p] \notin DOMAIN dir

\* a counter source has been added to an archive that held its key, and a key
\* the archive did not hold has been adopted
C11_Witness ==
    \E p \in Procs : Merged(p) /\ cur[p][1] = "counter" /\
        \E k1, k2 \in DOMAIN SrcOf(p) :
            /\ WasIn(p, k1) /\ Before(p, k1) > 0 /\ SrcOf(p)[k1] > 0
            /\ After(p)[k1] = 2
            /\ ~WasIn(p, k2) /\ After(p)[k2] = SrcOf(p)[k2]

-----------------------------------------------------------------------------
(* compact() of the stores of two dead processes of one class, by two callers
   in either order *)

OrderProcs == {"a", "b"}

NextOrder ==
    \/ \E p \in OrderProcs :
          \E f \in {g \in DOMAIN dir : g[Len(g)] # "archived"} : StartCompact(p, f)
    \/ \E p \in OrderProcs : compact_lock(p)
    \/ \E p \in OrderProcs : compact_open(p)
    \/ \E p \in OrderProcs : \E key \in kq[p] : compact_merge(p, key)
    \/ \E p \in OrderProcs : compact_unlink(p)
    \/ \E p \in OrderProcs : compact_close(p)

InitRekey ==
    /\ InitProcs
    /\ \E mm \in {"all", "liveall"} :
          dir \in ClassDirs("gauge", mm, GaugeKeys, {Key("g", "g", "x")},
                            IF mm = "all" THEN ArchivedAllKeys ELSE {}, Val)

SpecRekey == InitRekey /\ [][NextOrder]_vars

\* compact() of p has merged and unlinked its source and still holds the lock
MergedNow(p) == opk[p] = "compact" /\ pc[p] = "k_close"
\* the archive rows compact() of p writes in mode all
RowsOf(p) == {Rekey(key, PidOf(cur[p])) : key \in DOMAIN SrcOf(p)}

\* C12 as stated: compact() of a gauge/all or gauge/liveall source leaves, for
\* every key of the source, a row keyed by the key extended with the pid label
\* of the dying process and holding the source value; the rows the archive held
\* before are unchanged.
C12_CompactRekeysAllModes ==
    \A p \in Procs : MergedNow(p) =>
        /\ \A key \in DOMAIN SrcOf(p) :
              /\ Rekey(key, PidOf(cur[p])) \in DOMAIN After(p)
              /\ After(p)[Rekey(key, PidOf(cur[p]))] = SrcOf(p)[key]
        /\ \A k \in DOMAIN ArchiveBefore(p) :
              k \in DOMAIN After(p) /\ After(p)[k] = ArchiveBefore(p)[k]

\* C12 (amended): compact() of a gauge/all source leaves, for every key of the
\* source, a row keyed by the key extended with the pid label of the dying
\* process and holding the source value, also after the store of another pid
\* was compacted; every other row the archive held before is unchanged (a row
\* of the same key and pid, left by an earlier process of that pid, is
\* overwritten). A gauge/liveall source is unlinked and none of its rows is
\* written.
C12_CompactRekeys ==
    \A p \in Procs :
        /\ (Merged(p) /\ cur[p][2] = "all") =>
              \A key \in DOMAIN SrcOf(p) :
                  /\ Rekey(key, PidOf(cur[p])) \in DOMAIN After(p)
                  /\ After(p)[Rekey(key, PidOf(cur[p]))] = SrcOf(p)[key]
        /\ (MergedNow(p) /\ cur[p][2] = "all") =>
              \A k \in DOMAIN ArchiveBefore(p) \ RowsOf(p) :
                  k \in DOMAIN After(p) /\ After(p)[k] = ArchiveBefore(p)[k]
        /\ (MergedNow(p) /\ cur[p][2] = "liveall") =>
              After(p) = ArchiveBefore(p) /\ cur[p] \notin DOMAIN dir

\* the stores of pids 1 and 2 held the same key with different values, both
\* were compacted, and the archive holds the two rows next to the row of pid 3
C12_Witness ==
    \E p, q \in Procs :
        /\ p # q /\ Merged(p) /\ Merged(q) /\ pc[p] = "done" /\ pc[q] = "done"
        /\ cur[p][2] = "all" /\ PidOf(cur[p]) = "1" /\ PidOf(cur[q]) = "2"
        /\ Key("g", "g", "x") \in DOMAIN SrcOf(p) \cap DOMAIN SrcOf(q)
        /\ SrcOf(p)[Key("g", "g", "x")] # SrcOf(q)[Key("g", "g", "x")]
        /\ After(p)[Rekey(Key("g", "g", "x"), "1")] = SrcOf(p)[Key("g", "g", "x")]
        /\ After(p)[Rekey(Key("g", "g", "x"), "2")] = SrcOf(q)[Key("g", "g", "x")]
        /\ Rekey(Key("g", "g", "x"), "3") \in DOMAIN After(p)

-----------------------------------------------------------------------------
(* Claims on leaving the lock scope, under SpecConc *)

\* p is inside the with flocking(...) block of collect or compact
InBlock(p) == InScan(p) \/ InCompact(p)

\* C13: a process that has left the lock-protected block of collect() or
\* compact(), by completing it or by a failure raised inside it, holds the
\* coordination lock no more; when no process is inside a block the lock is
\* free, so a failed collect() or compact() blocks no later one.
C13_LockReleasedOnExit ==
    /\ \A p \in Procs : ~InBlock(p) => p \notin lockSH \cup lockEX
    /\ (\A p \in Procs : ~InBlock(p)) => CanFlock("LOCK_EX")

\* the compact() of a death handler failed inside its block on a source that
\* was gone, and a collect() that took the lock afterwards is scanning
C13_Witness ==
    \E p, q \in Procs :
        /\ opk[q] = "dead" /\ pc[q] = "err" /\ cur[q] \in probed[q]
        /\ cur[q][1] = "counter"
        /\ InScan(p) /\ p \in lockSH

-----------------------------------------------------------------------------
(* Claims on deletions, under SpecConc *)

\* C14: every step that deletes a store file (the unlink of a compacted source
\* and the removal of a live-tagged gauge file by mark_process_dead) is taken
\* by a process holding the coordination lock exclusively; so every file a
\* collect() enumerated stays in the directory until that collect() has read
\* it.
C14_DeletesUnderExclusiveLock ==
    /\ [][\A f \in DOMAIN dir : f \notin DOMAIN dir' =>
             \E p \in Procs : Moved(p) /\ p \in lockEX]_vars
    /\ [](\A p \in Procs : InScan(p) => todo[p] \subseteq DOMAIN dir)

-----------------------------------------------------------------------------
(* mark_process_dead on a directory that holds stores named by the layout
   type[_mode]_pid as well as stores with a trailing segment *)

NextCleanup ==
    \/ \E p \in DeadProcs : \E pid \in Pids : StartDead(p, pid)
    \/ \E p \in DeadProcs : \E f \in todo[p] : dead_probe(p, f)
    \/ \E p \in DeadProcs : dead_close(p)
    \/ \E p \in DeadProcs : dead_act(p)
    \/ \E p \in DeadProcs : dead_return(p)
    \/ \E p \in DeadProcs : compact_lock(p)
    \/ \E p \in DeadProcs : compact_open(p)
    \/ \E p \in DeadProcs : \E key \in kq[p] : compact_merge(p, key)
    \/ \E p \in DeadProcs : compact_unlink(p)
    \/ \E p \in DeadProcs : compact_close(p)

LayoutDir ==
    LET short == {ShortName("counter", "", "1"), ShortName("gauge", "min", "1"),
                  ShortName("gauge", "livesum", "1"), ShortName("summary", "", "2")}
        long  == {LiveName("counter", "", "1"), LiveName("gauge", "livesum", "1"),
                  LiveName("gauge", "min", "2")}
    IN  [f \in short \cup long |->
            IF f[1] = "gauge" THEN [k \in {Key("g", "g", "x")} |-> 1]
            ELSE IF f[1] = "counter" THEN [k \in {Key("c", "c", "x")} |-> 1]
            ELSE [k \in {Key("s", "s_sum", "x")} |-> 1]]

InitLayout ==
    /\ InitProcs
    /\ dir = LayoutDir

SpecLayout == InitLayout /\ [][NextCleanup]_vars

\* the store files of pid under the layout type_pid / gauge_mode_pid
StatedLayout(pid) ==
    {ShortName(typ, mm, pid) :
        typ \in {"counter", "histogram", "summary", "gauge"},
        mm \in {"min", "max", "all", "livesum", "liveall"}}

\* C15: mark_process_dead(pid) finds and processes every store file named
\* type_pid or gauge_mode_pid, for every type and mode: once a call has
\* returned, none of them is left in the directory.
C15_FindsStatedLayout ==
    \A p \in Procs : (opk[p] = "dead" /\ pc[p] = "done") =>
        DOMAIN dir \cap StatedLayout(arg[p]) = {}


\* another call is handling f: it holds or held the probe lock on f and has
\* not yet removed or compacted it
InHandOf(q, f) ==
    /\ cur[q] = f
    /\ pc[q] \in {"d_close", "d_act", "k_lock", "k_open", "k_merge"}

\* the store files of pid with a segment after the pid: type_pid_0 and
\* gauge_mode_pid_0
TrailingLayout(pid) ==
    {LiveName(typ, mm, pid) :
        typ \in {"counter", "histogram", "summary", "gauge"},
        mm \in {"min", "max", "all", "livesum", "liveall"}}

\* C15 (amended): mark_process_dead(pid) finds and processes every store file
\* whose name carries the pid as an inner segment (type_pid_x, gauge_mode_pid_x),
\* for every type and mode: once a call has returned, none of them is left
\* unless another call is handling it; the files named type_pid or
\* gauge_mode_pid are not found and stay as they were.
C15_FindsInnerSegment ==
    \A p \in Procs : opk[p] = "dead" =>
        /\ pc[p] = "done" =>
              \A f \in DOMAIN dir \cap TrailingLayout(arg[p]) :
                  \E q \in Procs \ {p} : InHandOf(q, f)
        /\ \A f \in DOMAIN LayoutDir \cap StatedLayout(arg[p]) :
              f \in DOMAIN dir /\ dir[f] = LayoutDir[f]

\* a call for pid 1 has returned: counter_1_0 is compacted into the archive,
\* gauge_livesum_1_0 is removed, counter_1 and gauge_min_1 are still there
C15_Witness ==
    \E p \in Procs :
        /\ opk[p] = "dead" /\ pc[p] = "done" /\ arg[p] = "1"
        /\ acted[p] = {<<LiveName("counter", "", "1"), "compact">>,
                       <<LiveName("gauge", "livesum", "1"), "remove">>}
        /\ DOMAIN dir \cap TrailingLayout("1") = {}
        /\ ArchiveName("counter", "") \in DOMAIN dir
        /\ ShortName("counter", "", "1") \in DOMAIN dir
        /\ ShortName("gauge", "min", "1") \in DOMAIN dir

-----------------------------------------------------------------------------
(* mark_process_dead with store files held by other processes and with probes
   that fail for another reason *)

NextProbe ==
    \/ NextDead
    \/ \E p \in DeadProcs : \E f \in todo[p] : dead_probe_error(p, f)

SpecProbe == InitDead /\ [][NextProbe]_vars

\* another process holds the advisory lock of f
HeldByOther(f, p) == \E h \in flk : h[2] = f /\ h[1] # p
\* the step is the probe of f by p
Probes(p, f) ==
    /\ opk[p] = "dead" /\ pc[p] = "d_loop"
    /\ f \in todo[p] /\ f \notin todo'[p] /\ cur'[p] = f

\* C16: a probe of a file whose lock another process holds leaves the
\* directory (the file and the archive) unchanged, takes no lock, raises no
\* error and returns at once to the loop over the remaining matched files; the
\* call removes and compacts only files it has probed with success, so never
\* the skipped one. A probe that fails for another reason, or does not get the
\* lock of a file nobody holds, ends the call with the error.
C16_SkipsHeldFile ==
    /\ [][\A p \in Procs : \A f \in DOMAIN dir :
             /\ (Probes(p, f) /\ HeldByOther(f, p)) =>
                   /\ dir' = dir /\ flk' = flk /\ probed' = probed /\ acted' = acted
                   /\ pc'[p] = "d_loop"
                   /\ todo'[p] = todo[p] \ {f}
             /\ (Probes(p, f) /\ ~HeldByOther(f, p) /\ pc'[p] # "d_close") =>
                   pc'[p] = "err" /\ dir' = dir]_vars
    /\ [](\A p \in Procs : \A a \in acted[p] : a[1] \in probed[p])

\* the call for pid 1 has returned normally: counter_1_0, held by another
\* process, was skipped and is untouched with no archive made, and
\* gauge_livesum_1_0, probed after it, is removed
C16_Witness ==
    \E p \in Procs :
        /\ opk[p] = "dead" /\ pc[p] = "done" /\ arg[p] = "1"
        /\ \A q \in Procs \ {p} : pc[q] = "idle"
        /\ <<Writer, LiveName("counter", "", "1")>> \in flk
        /\ LiveName("counter", "", "1") \notin probed[p]
        /\ LiveName("counter", "", "1") \in DOMAIN dir
        /\ dir[LiveName("counter", "", "1")] = DeadDir[LiveName("counter", "", "1")]
        /\ ArchiveName("counter", "") \notin DOMAIN dir
        /\ cur[p] = LiveName("gauge", "livesum", "1")
        /\ acted[p] = {<<LiveName("gauge", "livesum", "1"), "remove">>}

-----------------------------------------------------------------------------
(* compact() of the two sources of one class in either order *)

OrderClasses == {<<"counter", "">>, <<"histogram", "">>, <<"summary", "">>,
                 <<"gauge", "min">>, <<"gauge", "max">>, <<"gauge", "all">>}

OneKey(c) == {CHOOSE k \in ClassKeys(c) : TRUE}

InitOrder ==
    /\ InitProcs
    /\ \E c \in OrderClasses :
          dir \in ClassDirs(c[1], c[2], ClassKeys(c), OneKey(c),
                            IF c[2] = "all" THEN {Rekey(Key("g", "g", "x"), "3")}
                            ELSE OneKey(c), Val)

SpecOrder == InitOrder /\ [][NextOrder]_vars

\* the archive dst after the merge loop of compact(f) over the rows of src
RECURSIVE MergeRows(_, _, _, _)
MergeRows(dst, f, src, keys) ==
    IF keys = {} THEN dst
    ELSE LET key == CHOOSE k \in keys : TRUE
         IN  MergeRows(MergeKey(dst, TypOf(f), ModeOf(f), PidOf(f), key, src[key]),
                       f, src, keys \ {key})

\* the archive of directory d after compact() of the store of pid 1 and then
\* of the store of pid 2
Pid1ThenPid2(d) ==
    LET f1 == CHOOSE f \in DOMAIN d : f[Len(f)] # "archived" /\ PidOf(f) = "1"
        f2 == CHOOSE f \in DOMAIN d : f[Len(f)] # "archived" /\ PidOf(f) = "2"
    IN  MergeRows(MergeRows(d[DstOf(f1)], f1, d[f1], DOMAIN d[f1]),
                  f2, d[f2], DOMAIN d[f2])

\* p's compact() was the first of the two: it saw both sources
First(p) == \A q \in OrderProcs : cur[q] \in DOMAIN snap[p]

\* C17: once the sources of pid 1 and pid 2 of one class (counter, histogram,
\* summary, gauge min, gauge max, gauge all) are both compacted, in whichever
\* order, the archive is the one that compacting pid 1 and then pid 2 gives.
C17_OrderIndependent ==
    \A p, q \in OrderProcs :
        (p # q /\ Merged(p) /\ Merged(q) /\ pc[q] = "done" /\ First(p)) =>
            After(p) = Pid1ThenPid2(snap[p])

\* the store of pid 2 was compacted before the store of pid 1, both held the
\* same key with different values, and the archive held it too
C17_Witness ==
    \E p, q \in OrderProcs :
        /\ p # q /\ Merged(p) /\ Merged(q) /\ pc[p] = "done" /\ pc[q] = "done"
        /\ First(p) /\ PidOf(cur[p]) = "2" /\ PidOf(cur[q]) = "1"
        /\ \E k \in DOMAIN SrcOf(p) \cap DOMAIN SrcOf(q) :
              /\ SrcOf(p)[k] # SrcOf(q)[k]
              /\ WasIn(p, k) /\ Before(p, k) # 0

-----------------------------------------------------------------------------
(* compact() interrupted before the unlink, and compact() of the same source
   run again *)

InitCrash ==
    /\ InitProcs
    /\ \E c \in AddClasses \ {<<"gauge", "livesum">>} :
          dir \in CompactDirs(c[1], c[2], ClassKeys(c), Val)

NextCrash ==
    \/ NextOrder
    \/ \E p \in OrderProcs : compact_crash(p)

SpecCrash == InitCrash /\ [][NextCrash]_vars

\* compact() of p died in its merge loop
Crashed(p) == opk[p] = "compact" /\ pc[p] = "crashed"
\* the keys p had merged when it died
MergedKeys(p) == DOMAIN SrcOf(p) \ kq[p]

\* C18: after compact() of a counter, histogram or summary source died between
\* its first write and the unlink, the source is still there with all its
\* values until a compact() merges it; the compact() run again on it adds
\* every key once more, so the archive ends with its previous value plus twice
\* the source value for the keys merged before the crash, and plus once the
\* source value for the others.
C18_RerunDoubleCounts ==
    \A p \in OrderProcs : Crashed(p) =>
        /\ (\A q \in OrderProcs : ~Merged(q))
              => (cur[p] \in DOMAIN dir /\ dir[cur[p]] = SrcOf(p))
        /\ \A q \in OrderProcs : Merged(q) =>
              /\ cur[q] = cur[p]
              /\ SrcOf(q) = SrcOf(p)
              /\ \A key \in DOMAIN SrcOf(p) :
                    After(q)[key] =
                        Before0(p, key)
                        + (IF key \in MergedKeys(p) THEN 2 ELSE 1) * SrcOf(p)[key]

\* compact() died after merging one of two keys, the source held 1 for both,
\* and the compact() run again left 2 for the merged key and 1 for the other
C18_Witness ==
    \E p, q \in OrderProcs :
        /\ Crashed(p) /\ Merged(q) /\ pc[q] = "done"
        /\ \E k1, k2 \in DOMAIN SrcOf(p) :
              /\ k1 \in MergedKeys(p) /\ k2 \notin MergedKeys(p)
              /\ SrcOf(p)[k1] = 1 /\ SrcOf(p)[k2] = 1
              /\ ~WasIn(p, k1) /\ ~WasIn(p, k2)
              /\ After(q)[k1] = 2 /\ After(q)[k2] = 1

-----------------------------------------------------------------------------
(* collect() before and after one compact() of a counter, summary or histogram
   store, with no writer active *)

TotalsProcs == {"b", "c"}

TotalsDirs(c) ==
    {Put(EmptyStore, LiveName(c[1], c[2], "1"), s) :
        s \in StoreSet(ClassKeys(c), 0..MaxVal)}
    \cup
    {Put(Put(EmptyStore, LiveName(c[1], c[2], "1"), s), ArchiveName(c[1], c[2]), a) :
        s \in StoreSet(ClassKeys(c), 0..MaxVal), a \in StoreSet(OneKey(c), 0..MaxVal)}

InitTotals ==
    /\ InitProcs
    /\ \E c \in AddClasses \ {<<"gauge", "livesum">>} : dir \in TotalsDirs(c)

NextTotals ==
    \/ NextCompact
    \/ \E p \in TotalsProcs : StartCollect(p)
    \/ \E p \in TotalsProcs : collect_lock(p)
    \/ \E p \in TotalsProcs : \E f \in todo[p] : collect_read(p, f)
    \/ \E p \in TotalsProcs : collect_return(p)

SpecTotals == InitTotals /\ [][NextTotals]_vars

\* collect() of p scanned the directory before compact() of k, and collect()
\* of q scanned it after
Around(p, k, q) ==
    /\ Returned(p) /\ Returned(q) /\ Merged(k)
    /\ cur[k] \in DOMAIN snap[p]
    /\ cur[k] \notin DOMAIN snap[q]

\* C19: a collect() that scanned after a completed compact() of a counter,
\* summary or histogram store reports, for every metric and sample, the value
\* a collect() that scanned before that compact() reported.
C19_TotalsPreserved ==
    \A p, q \in TotalsProcs : \A k \in CompactProcs :
        Around(p, k, q) => result[q] = result[p]

\* the source and the archive both held a positive value for one key, and
\* collect() reported its sum before and after the compact()
C19_Witness ==
    \E p, q \in TotalsProcs : \E k \in CompactProcs :
        /\ Around(p, k, q)
        /\ \E key \in DOMAIN SrcOf(k) :
              /\ SrcOf(k)[key] > 0 /\ WasIn(k, key) /\ Before(k, key) > 0
              /\ After(k)[key] = Before(k, key) + SrcOf(k)[key]
        /\ result[p] # EmptyStore
        /\ result[q] = result[p]

-----------------------------------------------------------------------------
(* Two calls of mark_process_dead for the same pid at once *)

RaceDir ==
    [f \in {LiveName("counter", "", "1"), LiveName("histogram", "", "1"),
            LiveName("summary", "", "1")} |-> [k \in OneKey(<<f[1], "">>) |-> 1]]

InitRace ==
    /\ InitProcs
    /\ dir = RaceDir

SpecRace == InitRace /\ [][NextCleanup]_vars

\* every started call has ended, normally or with an error
AllEnded(pid) ==
    \A p \in DeadProcs : opk[p] = "dead" /\ arg[p] = pid /\ pc[p] \in {"done", "err"}

\* C20: with two calls of mark_process_dead for the same pid at once, no store
\* of the pid is added to its archive twice at any time, and once both calls
\* have ended, normally or with an error, the archive of every store of the pid
\* holds that store's values exactly once.
C20_MergedExactlyOnce ==
    /\ \A f \in DOMAIN RaceDir : DstOf(f) \in DOMAIN dir =>
          \A key \in DOMAIN dir[DstOf(f)] : dir[DstOf(f)][key] <= RaceDir[f][key]
    /\ AllEnded("1") =>
          \A f \in DOMAIN RaceDir :
              DstOf(f) \in DOMAIN dir /\ dir[DstOf(f)] = RaceDir[f]

====
